---------------------------- MODULE Spec2Model ----------------------------
(***************************************************************************)
(* MTGO-Tracker: the incremental ingestion controller of convert_logs.py,  *)
(* the stats commands, and the tournament scraper of scrape_premodern.py   *)
(* (specifications ScrapeSpec and ListSpec, further down).                 *)
(*                                                                         *)
(* The model follows convert_logs() statement by statement: the scan of    *)
(* the log folder against the Processed_Files ledger, the per-file loop    *)
(* with its try/except, the perspective inversion, the four bulk inserts   *)
(* and the single conn.commit().  The SQLite connection is modelled by two *)
(* copies of the store: db (what is committed, what any later run or       *)
(* reader sees) and tx (what the open connection sees: db plus the         *)
(* statements executed since the last commit).                             *)
(*                                                                         *)
(* modo.get_all_data and modo.invert_join are imported by convert_logs.py  *)
(* but their module is not among the source files; they are modelled from  *)
(* sections 4.1 and 4.2 of the specification.                              *)
(***************************************************************************)
EXTENDS Integers, Sequences, FiniteSets, Bags, TLC

(***************************************************************************)
(* Bounds of the model.                                                    *)
(***************************************************************************)
MaxDirs == 2
\* sub-directories of the log folder (os.walk is recursive)
MaxIds == 2
\* distinct identifiers embedded in file names
MaxFiles == 2
\* files present under the log folder at any one time
MaxGames == 2
\* games in one transcript
MaxRuns == 2
\* invocations of convert_logs in one behaviour
MaxEdits == 1
\* files written or deleted between two invocations

(***************************************************************************)
(* The file system under the log folder.                                   *)
(*                                                                         *)
(* A file name is the triple <<token, id, extension>>; find_log_files      *)
(* keeps the names that contain the token Match_GameLog_ and end in .dat.  *)
(* A path is <<directory, file name>>.                                     *)
(***************************************************************************)
Dirs == 1..MaxDirs

Ids == 1..MaxIds

Names == {<<"Match_GameLog_", id, ".dat">> : id \in Ids}

Paths == Dirs \X Names

NoFile == [kind |-> "none", games |-> 0, hero |-> "none"]

Players == {"alice", "bob"}

\* What a transcript holds, by what the parser makes of it: a match of so many
\* games logged by the client of one of its players (the hero); or a file the
\* parser rejects, one it fails on, one io.open cannot read.
Contents == {[kind |-> "good", games |-> g, hero |-> h] : g \in 1..MaxGames, h \in Players}
            \cup {[kind |-> k, games |-> 0, hero |-> "none"] :
                      k \in {"reject", "raise", "unreadable"}}

VARIABLES
    folder_exists,  \* whether the log folder exists
    db_exists,      \* whether the database file exists
    argv,           \* how this invocation names the folder
    fs,             \* path -> content, NoFile where there is no file
    db,             \* the committed store
    tx,             \* the store as the open connection sees it
    pc,             \* where convert_logs is
    runs,           \* invocations so far
    exit,           \* exit status of the last finished invocation
    new_files,      \* list of candidate paths of this run
    i,              \* index of the next candidate in new_files
    match_count,
    error_count,
    skipped_count,
    all_matches,
    all_games,
    all_plays,
    all_actions,
    inverted_data,
    outcome,        \* history: path -> what the last run did with it
    prev,           \* history: outcome of the run before, while a run is on
    dbAtStart,      \* history: db when this run scanned
    dbBefore,       \* history: db when the run before scanned
    edits,          \* history: changes to the folder since the last scan
    sameFs,         \* history: the folder was as the run before scanned it
    prevExit,       \* history: exit status of the run before
    prevStoreFault, \* history: a store write raised in the run before
    readFault,      \* history: a file could not be read in this run
    storeFault      \* history: a store write raised in this run

\* scrape_premodern.py: the scraper shares no state with the converter; it
\* has its own database file (premodern_data.db) and its own connection.
VARIABLES
    scrape_db,       \* the committed scraper store: Events, Decks, Cards
    scrape_tx,       \* the scraper store as its open connection sees it
    spc,             \* where the scraper is
    scrape_runs,     \* scrape runs so far
    num_events,      \* the argument of scrape_events and scrape_event_list
    events,          \* scrape_event_list: the events found so far
    page,            \* scrape_event_list: the list page to request next
    existing_events, \* scrape_events: the event ids read at its start
    event_index,     \* scrape_events: position of the for loop over events
    event_id,        \* scrape_events: the event being stored
    decks,           \* scrape_events: the decks of the event being stored
    deck_index,      \* scrape_events: position of the for loop over decks
    new_events,
    new_decks,
    requests,        \* history: list pages requested by this call
    fetched,         \* history: event pages requested by this run
    scrapeAtStart,   \* history: scrape_db when this run started
    stored           \* history: the deck stored last and the lists fetched for it

scraper == <<scrape_db, scrape_tx, spc, scrape_runs, num_events, events, page, existing_events,
             event_index, event_id, decks, deck_index, new_events, new_decks, requests,
             fetched, scrapeAtStart, stored>>

converter == <<folder_exists, db_exists, argv, fs, db, tx, pc, runs, exit, new_files, i,
               match_count, error_count, skipped_count, all_matches, all_games, all_plays,
               all_actions, inverted_data, outcome, prev, dbAtStart, dbBefore, edits, sameFs,
               prevExit, prevStoreFault, readFault, storeFault>>

vars == <<converter, scraper>>

(***************************************************************************)
(* Helpers on sequences and bags.                                          *)
(***************************************************************************)
Range(s) == {s[k] : k \in DOMAIN s}

RECURSIVE SelectPaths(_, _)
\* the list comprehension [f for f in s if Keep(f)], order kept
SelectPaths(s, keep) ==
    IF s = <<>> THEN <<>>
    ELSE IF Head(s) \in keep THEN <<Head(s)>> \o SelectPaths(Tail(s), keep)
         ELSE SelectPaths(Tail(s), keep)

\* every ordering of a finite set, as sequences without repetition
Orderings(S) == {s \in [1..Cardinality(S) -> S] : \A a, b \in DOMAIN s : a # b => s[a] # s[b]}

(***************************************************************************)
(* The store: create_database's five tables.                               *)
(***************************************************************************)
EmptyStore == [Processed_Files |-> {}, Matches |-> {}, Games |-> {},
               Plays |-> EmptyBag, GameActions |-> {}]

\* A connection in autocommit mode, for comparison: each statement is committed
\* as it is executed.
AutocommitExecute(committed, view) == view

\* The default sqlite3 connection opens a transaction at the first INSERT and
\* keeps it open until conn.commit(): executing a statement changes tx only.
ExecuteLeavesCommitted(committed, view) == committed

\* Primary keys of the tables that declare one.
FileKey(r) == r.Filename

MatchKey(r) == <<r.Match_ID, r.P1>>

GameKey(r) == <<r.Match_ID, r.Game_Num, r.P1>>

ActionKey(r) == <<r.Match_ID, r.Game_Num>>

\* INSERT OR IGNORE of one row into a table with a primary key.
InsertOrIgnoreFile(table, r) ==
    IF \E x \in table : FileKey(x) = FileKey(r) THEN table ELSE table \cup {r}

\* For comparison: Matches keyed by Match_ID only.
InsertOrIgnoreMatchById(table, r) ==
    IF \E x \in table : x.Match_ID = r.Match_ID THEN table ELSE table \cup {r}

\* For comparison: INSERT OR REPLACE, the row with the same key gives way.
InsertOrReplaceMatch(table, r) ==
    {x \in table : MatchKey(x) # MatchKey(r)} \cup {r}

InsertOrIgnoreMatch(table, r) ==
    IF \E x \in table : MatchKey(x) = MatchKey(r) THEN table ELSE table \cup {r}

\* For comparison: Games keyed by (Match_ID, P1) only.
InsertOrIgnoreGameByMatch(table, r) ==
    IF \E x \in table : MatchKey(x) = MatchKey(r) THEN table ELSE table \cup {r}

InsertOrIgnoreGame(table, r) ==
    IF \E x \in table : GameKey(x) = GameKey(r) THEN table ELSE table \cup {r}

InsertOrIgnoreAction(table, r) ==
    IF \E x \in table : ActionKey(x) = ActionKey(r) THEN table ELSE table \cup {r}

\* Plays declares no primary key: INSERT OR IGNORE has no conflict to ignore,
\* every row is added.
InsertOrIgnorePlay(table, r) == table (+) SetToBag({r})

RECURSIVE ExecuteManyMatches(_, _)
ExecuteManyMatches(table, rows) ==
    IF rows = <<>> THEN table
    ELSE ExecuteManyMatches(InsertOrIgnoreMatch(table, Head(rows)), Tail(rows))

RECURSIVE ExecuteManyGames(_, _)
ExecuteManyGames(table, rows) ==
    IF rows = <<>> THEN table
    ELSE ExecuteManyGames(InsertOrIgnoreGame(table, Head(rows)), Tail(rows))

RECURSIVE ExecuteManyPlays(_, _)
ExecuteManyPlays(table, rows) ==
    IF rows = <<>> THEN table
    ELSE ExecuteManyPlays(InsertOrIgnorePlay(table, Head(rows)), Tail(rows))

\* For comparison: a ledger that is never read back.
NothingProcessed(store) == {}

\* SELECT Filename FROM Processed_Files, as a set
get_processed_files(store) == {r.Filename : r \in store.Processed_Files}

(***************************************************************************)
(* File names (convert_logs.py lines 120, 156, 174, 179).                  *)
(***************************************************************************)
\* os.path.basename(filepath)
Basename(filepath) == filepath[2]

\* 'Match_GameLog_' in f and f.endswith('.dat')
IsLogName(f) == f[1] = "Match_GameLog_" /\ f[3] = ".dat"

\* filename.split('Match_GameLog_')[1].split('.dat')[0]
Fname(filename) == SubSeq(filename, 2, 2)

\* find_log_files: the paths os.walk meets whose name is a log name.  The
\* order of the list is the directory listing's; any order is possible.
find_log_files(files) ==
    Orderings({p \in Paths : files[p] # NoFile /\ IsLogName(Basename(p))})

\* For comparison: every log file is a candidate.
NoFilter(log_files, processed_files) == log_files

\* new_files = [f for f in log_files if os.path.basename(f) not in processed_files]
NewFiles(log_files, processed_files) ==
    SelectPaths(log_files, {p \in Range(log_files) : Basename(p) \notin processed_files})

(***************************************************************************)
(* modo.get_all_data and modo.invert_join, from the specification          *)
(* (sections 3, 4.1, 4.2 and 6).                                           *)
(***************************************************************************)
Opponent(h) == IF h = "alice" THEN "bob" ELSE "alice"

\* plays the parser finds in a game
PlaysPerGame == 2

MatchRow(mid, g, h) ==
    [Match_ID |-> mid, P1 |-> h, P2 |-> Opponent(h), P1_Roll |-> 2, P2_Roll |-> 1,
     Roll_Winner |-> "P1", P1_Wins |-> g, P2_Wins |-> 0, Match_Winner |-> "P1"]

GameRow(mid, n, h) ==
    [Match_ID |-> mid, P1 |-> h, P2 |-> Opponent(h), Game_Num |-> n, P1_Mulls |-> 1,
     P2_Mulls |-> 0, Game_Winner |-> "P1"]

PlayRow(mid, n, k) ==
    [Match_ID |-> mid, Game_Num |-> n, Play_Num |-> k, Turn_Num |-> k,
     Casting_Player |-> "P1", Opp_Target |-> 1, Self_Target |-> 0,
     Active_Player |-> "P1", Nonactive_Player |-> "P2"]

\* one raw line of a transcript
Line(x) == <<"line", x>>

\* the key of a game's raw action lines: match id, a separator, the game number
ActionsKey(mid, n) == mid \o <<"-", n>>

\* TranscriptParser: a parsed match, a rejection reason (a string), or, for
\* input it cannot interpret, an exception.
get_all_data(content, fname) ==
    CASE content.kind = "good" ->
            [tag |-> "data",
             match |-> MatchRow(fname, content.games, content.hero),
             games |-> [n \in 1..content.games |-> GameRow(fname, n, content.hero)],
             plays |-> [j \in 1..(content.games * PlaysPerGame) |->
                           PlayRow(fname, ((j - 1) \div PlaysPerGame) + 1,
                                   ((j - 1) % PlaysPerGame) + 1)],
             actions |-> [k \in {ActionsKey(fname, n) : n \in 1..content.games}
                            |-> <<Line(k[Len(k)]), Line(content.games)>>]]
      [] content.kind = "reject" -> [tag |-> "str", reason |-> "no games found"]
      [] OTHER -> [tag |-> "exception"]

\* For comparison: a relabelling that is not its own inverse.
RelabelOneWay(x) == IF x = "P1" THEN "P2" ELSE x

SwapLabel(x) == IF x = "P1" THEN "P2" ELSE IF x = "P2" THEN "P1" ELSE x

InvertMatch(m) ==
    [m EXCEPT !.P1 = m.P2, !.P2 = m.P1, !.P1_Roll = m.P2_Roll, !.P2_Roll = m.P1_Roll,
              !.Roll_Winner = SwapLabel(m.Roll_Winner),
              !.P1_Wins = m.P2_Wins, !.P2_Wins = m.P1_Wins,
              !.Match_Winner = SwapLabel(m.Match_Winner)]

InvertGame(g) ==
    [g EXCEPT !.P1 = g.P2, !.P2 = g.P1, !.P1_Mulls = g.P2_Mulls, !.P2_Mulls = g.P1_Mulls,
              !.Game_Winner = SwapLabel(g.Game_Winner)]

InvertPlay(p) ==
    [p EXCEPT !.Casting_Player = SwapLabel(p.Casting_Player),
              !.Opp_Target = p.Self_Target, !.Self_Target = p.Opp_Target,
              !.Active_Player = SwapLabel(p.Active_Player),
              !.Nonactive_Player = SwapLabel(p.Nonactive_Player)]

\* PerspectiveInverter: every match, game and play row once per perspective;
\* the action log is passed through.
invert_join(all_data) ==
    [matches |-> all_data.matches \o [k \in DOMAIN all_data.matches |-> InvertMatch(all_data.matches[k])],
     games |-> all_data.games \o [k \in DOMAIN all_data.games |-> InvertGame(all_data.games[k])],
     plays |-> all_data.plays \o [k \in DOMAIN all_data.plays |-> InvertPlay(all_data.plays[k])],
     actions |-> all_data.actions]

NoData == [matches |-> <<>>, games |-> <<>>, plays |-> <<>>, actions |-> <<>>]

(***************************************************************************)
(* The body of the per-file loop (convert_logs.py lines 173-208).          *)
(***************************************************************************)
\* isinstance(parsed_data, str)
IsStr(parsed_data) == parsed_data.tag = "str"

\* For comparison: a loop body without the except clause.
CatchesNothing(raised) == FALSE

\* except Exception: what the try block raises is caught here, the loop goes on
ExceptCatches(raised) == raised \in {"OSError", "ParserError", "sqlite3.Error"}

\* dict.update
DictUpdate(d, e) ==
    [k \in DOMAIN d \cup DOMAIN e |-> IF k \in DOMAIN e THEN e[k] ELSE d[k]]

\* The local state of convert_logs that the loop body reads and writes.
Locals ==
    [tx |-> tx, all_matches |-> all_matches, all_games |-> all_games,
     all_plays |-> all_plays, all_actions |-> all_actions,
     match_count |-> match_count, error_count |-> error_count,
     skipped_count |-> skipped_count]

\* INSERT OR IGNORE INTO Processed_Files VALUES (filename, match_id, now)
RecordFile(st, filename, match_id, now) ==
    [st EXCEPT !.tx.Processed_Files =
                   InsertOrIgnoreFile(@, [Filename |-> filename, Match_ID |-> match_id,
                                          Processed_Date |-> now])]

\* For comparison: a rejected file is counted and also ledgered.
SkipAndRecord(st, filename, match_id, now) ==
    RecordFile([st EXCEPT !.skipped_count = @ + 1], filename, match_id, now)

\* lines 184-187: the parser returned a reason; print it, count it, continue
OnSkip(st, filename, match_id, now) == [st EXCEPT !.skipped_count = @ + 1]

\* For comparison: an except clause that prints and counts nothing.
PrintOnly(st, filename, match_id, now) == st

\* For comparison: a failed file is counted and also ledgered.
ErrorAndRecord(st, filename, match_id, now) ==
    RecordFile([st EXCEPT !.error_count = @ + 1], filename, match_id, now)

\* lines 206-208: print the exception, count it
OnException(st, filename, match_id, now) == [st EXCEPT !.error_count = @ + 1]

\* The try block over filepath (lines 176-204).  ledgerOk is whether the
\* store accepts the INSERT into Processed_Files.  The result is the new
\* local state, what became of the file, and the exception raised, if any.
TryBlock(st, filepath, content, ledgerOk, now) ==
    LET filename == Basename(filepath)
        fname == Fname(filename)
        parsed_data == get_all_data(content, fname)
        match_id == parsed_data.match.Match_ID
        appended == [st EXCEPT !.all_matches = Append(@, parsed_data.match),
                               !.all_games = @ \o parsed_data.games,
                               !.all_plays = @ \o parsed_data.plays,
                               !.all_actions = DictUpdate(@, parsed_data.actions)]
    IN  CASE content.kind \in {"unreadable", "none"} ->
                [st |-> st, outcome |-> "error", raised |-> "OSError", caught |-> FALSE]
          [] content.kind \notin {"unreadable", "none"} /\ parsed_data.tag = "exception" ->
                [st |-> st, outcome |-> "error", raised |-> "ParserError", caught |-> FALSE]
          [] content.kind \notin {"unreadable", "none"} /\ parsed_data.tag # "exception"
                /\ IsStr(parsed_data) ->
                [st |-> OnSkip(st, filename, fname, now),
                 outcome |-> "skipped", raised |-> "none", caught |-> FALSE]
          [] OTHER ->
                IF ledgerOk
                THEN [st |-> [RecordFile(appended, filename, match_id, now)
                                EXCEPT !.match_count = @ + 1],
                      outcome |-> "ok", raised |-> "none", caught |-> FALSE]
                ELSE [st |-> appended, outcome |-> "error", raised |-> "sqlite3.Error",
                      caught |-> FALSE]

\* One pass of the loop body (lines 173-208): the try block, and the except
\* clause for what it raises.  An exception the clause does not catch leaves
\* convert_logs.
LoopBody(st, filepath, content, ledgerOk, now) ==
    LET r == TryBlock(st, filepath, content, ledgerOk, now)
    IN  IF r.raised # "none" /\ ExceptCatches(r.raised)
        THEN [r EXCEPT !.st = OnException(r.st, Basename(filepath),
                                          Fname(Basename(filepath)), now),
                       !.caught = TRUE]
        ELSE r

(***************************************************************************)
(* Initial state: some transcripts under the log folder and a store that   *)
(* does not exist yet (create_database makes the five empty tables on the  *)
(* first run).                                                             *)
(***************************************************************************)
\* The scraper before its first run: create_database of scrape_premodern.py
\* (lines 39-77) has made the three empty tables.
EmptyScrapeStore == [Events |-> {}, Decks |-> {}, Cards |-> EmptyBag]

NoDeck == [deck_id |-> 0, maindeck |-> <<>>, sideboard |-> <<>>]

ScraperIdle ==
    /\ scrape_db = EmptyScrapeStore
    /\ scrape_tx = EmptyScrapeStore
    /\ spc = "idle"
    /\ scrape_runs = 0
    /\ num_events = 0
    /\ events = <<>>
    /\ page = 1
    /\ existing_events = {}
    /\ event_index = 1
    /\ event_id = 0
    /\ decks = <<>>
    /\ deck_index = 1
    /\ new_events = 0
    /\ new_decks = 0
    /\ requests = 0
    /\ fetched = {}
    /\ scrapeAtStart = EmptyScrapeStore
    /\ stored = NoDeck

NoOutcome == [p \in Paths |-> "none"]

\* Each directory under the folder holds the transcripts one client wrote:
\* the hero of a transcript is the player of its directory.
ClientOf(dir) == IF dir % 2 = 1 THEN "alice" ELSE "bob"

ContentsAt(p) == {c \in Contents : c.kind = "good" => c.hero = ClientOf(p[1])}

Folders ==
    UNION {{[p \in Paths |-> IF p \in S THEN f[p] ELSE NoFile] :
               f \in {g \in [S -> Contents] : \A p \in S : g[p] \in ContentsAt(p)}} :
              S \in {T \in SUBSET Paths : Cardinality(T) <= MaxFiles}}

Init ==
    /\ folder_exists \in BOOLEAN
    /\ db_exists = FALSE
    /\ argv = "none"
    /\ fs \in IF folder_exists THEN Folders ELSE {[p \in Paths |-> NoFile]}
    /\ db = EmptyStore
    /\ tx = EmptyStore
    /\ pc = "idle"
    /\ runs = 0
    /\ exit = "none"
    /\ new_files = <<>>
    /\ i = 1
    /\ match_count = 0
    /\ error_count = 0
    /\ skipped_count = 0
    /\ all_matches = <<>>
    /\ all_games = <<>>
    /\ all_plays = <<>>
    /\ all_actions = <<>>
    /\ inverted_data = NoData
    /\ outcome = NoOutcome
    /\ prev = NoOutcome
    /\ dbAtStart = EmptyStore
    /\ dbBefore = EmptyStore
    /\ edits = 0
    /\ sameFs = FALSE
    /\ prevExit = "none"
    /\ prevStoreFault = FALSE
    /\ readFault = FALSE
    /\ storeFault = FALSE
    /\ ScraperIdle

run_locals == <<new_files, i, match_count, error_count, skipped_count, all_matches,
                all_games, all_plays, all_actions, inverted_data>>

invocation == <<folder_exists, db_exists, argv>>

history == <<outcome, prev, dbAtStart, dbBefore, edits, sameFs, prevExit, prevStoreFault, readFault,
             storeFault>>

(***************************************************************************)
(* The environment: between two runs, transcripts appear, change and are   *)
(* deleted.                                                                *)
(***************************************************************************)
WriteFile(p, c) ==
    /\ pc = "idle"
    /\ runs > 0
    /\ runs < MaxRuns
    /\ edits < MaxEdits
    /\ folder_exists
    /\ c \in ContentsAt(p)
    /\ fs[p] # c
    /\ Cardinality({q \in Paths : q # p /\ fs[q] # NoFile}) < MaxFiles
    /\ fs' = [fs EXCEPT ![p] = c]
    /\ edits' = edits + 1
    /\ UNCHANGED <<invocation, db, tx, pc, runs, exit, run_locals, outcome, prev, dbAtStart, dbBefore,
                   sameFs, prevExit, prevStoreFault, readFault, storeFault>>
    /\ UNCHANGED scraper

RemoveFile(p) ==
    /\ pc = "idle"
    /\ runs > 0
    /\ runs < MaxRuns
    /\ edits < MaxEdits
    /\ fs[p] # NoFile
    /\ fs' = [fs EXCEPT ![p] = NoFile]
    /\ edits' = edits + 1
    /\ UNCHANGED <<invocation, db, tx, pc, runs, exit, run_locals, outcome, prev, dbAtStart, dbBefore,
                   sameFs, prevExit, prevStoreFault, readFault, storeFault>>
    /\ UNCHANGED scraper

(***************************************************************************)
(* convert_logs, lines 133-157: open the store, read the ledger, scan the  *)
(* folder, keep the files whose name is not in the ledger.                 *)
(***************************************************************************)
\* What each invocation sets before it does anything else: the run counter
\* and the history of the run before.
Invoked ==
    /\ runs' = runs + 1
    /\ outcome' = NoOutcome
    /\ prev' = outcome
    /\ dbAtStart' = db
    /\ sameFs' = (runs > 0 /\ edits = 0)
    /\ edits' = 0
    /\ prevExit' = exit
    /\ prevStoreFault' = storeFault
    /\ storeFault' = FALSE

\* __main__, lines 355-361: a folder named on the command line that does not
\* exist ends the process with status 1 before convert_logs is called.
FolderNotFound ==
    /\ pc = "idle"
    /\ runs < MaxRuns
    /\ ~folder_exists
    /\ argv' = "folder"
    /\ Invoked
    /\ pc' = "done"
    /\ exit' = "1"
    /\ UNCHANGED <<folder_exists, db_exists, fs, db, tx, run_locals, readFault, dbBefore>>
    /\ UNCHANGED scraper

\* __main__, lines 337-342 (no argument: convert_logs() with the defaults) and
\* lines 356-363 (a folder that exists), then convert_logs to line 157.  With
\* a folder that exists the two forms run the same statements and are not
\* told apart ("either"); a folder that does not exist gets here only as the
\* default, and os.walk of it yields nothing.
Scan ==
    /\ pc = "idle"
    /\ runs < MaxRuns
    /\ argv' = IF folder_exists THEN "either" ELSE "default"
    /\ \E log_files \in find_log_files(fs) :
          new_files' = NewFiles(log_files, get_processed_files(db))
    /\ pc' = "parse"
    /\ db_exists' = TRUE
    /\ tx' = db
    /\ Invoked
    /\ UNCHANGED <<folder_exists, fs, db, exit, i, match_count, error_count, skipped_count,
                   all_matches, all_games, all_plays, all_actions, inverted_data, readFault,
                   dbBefore>>
    /\ UNCHANGED scraper

\* The run is over: 0 when convert_logs returned, 1 when an exception left
\* it (traceback), "killed" when the process was stopped from outside.  The
\* connection is gone and with it whatever was not committed.
Ended(status, committed) ==
    /\ pc' = "done"
    /\ exit' = status
    /\ tx' = committed

\* lines 159-163: nothing to do; print the summary, close, return
NoNewFiles ==
    /\ pc = "parse"
    /\ new_files = <<>>
    /\ Ended("0", db)
    /\ UNCHANGED <<invocation, fs, db, runs, run_locals, history>>
    /\ UNCHANGED scraper

(***************************************************************************)
(* lines 173-208: one candidate file.                                      *)
(***************************************************************************)
ParseFile ==
    /\ pc = "parse"
    /\ i <= Len(new_files)
    /\ \E storeRefuses \in BOOLEAN :
          LET filepath == new_files[i]
              r == LoopBody(Locals, filepath, fs[filepath], ~storeRefuses, runs)
          IN  /\ outcome' = [outcome EXCEPT ![filepath] = r.outcome]
              /\ readFault' = (readFault \/ r.raised = "OSError")
              /\ storeFault' = (storeFault \/ r.raised = "sqlite3.Error")
              /\ all_matches' = r.st.all_matches
              /\ all_games' = r.st.all_games
              /\ all_plays' = r.st.all_plays
              /\ all_actions' = r.st.all_actions
              /\ skipped_count' = r.st.skipped_count
              /\ match_count' = r.st.match_count
              /\ error_count' = r.st.error_count
              /\ db' = ExecuteLeavesCommitted(db, r.st.tx)
              /\ IF r.raised = "none" \/ r.caught
                 THEN /\ tx' = r.st.tx
                      /\ i' = i + 1
                      /\ UNCHANGED <<pc, exit>>
                 ELSE \* the exception leaves convert_logs
                      /\ Ended("1", db')
                      /\ UNCHANGED i
    /\ UNCHANGED <<invocation, fs, runs, new_files, inverted_data, prev, dbAtStart, dbBefore, edits,
                   sameFs, prevExit, prevStoreFault>>
    /\ UNCHANGED scraper

(***************************************************************************)
(* lines 210-216: after the loop, invert the batch if it holds a match,    *)
(* otherwise (lines 247-249) print the summary, close and return.          *)
(***************************************************************************)
\* For comparison: a loop left after its first candidate.
AfterFirstFile(idx, files) == idx > 1

\* for filepath in new_files: the loop is left when the list is exhausted
ForExhausted(idx, files) == idx > Len(files)

\* For comparison: the inserts and the commit run whatever the count.
AnyCount(count) == count >= 0

\* if match_count > 0
BatchNotEmpty(count) == count > 0

EndLoop ==
    /\ pc = "parse"
    /\ new_files # <<>>
    /\ ForExhausted(i, new_files)
    /\ IF BatchNotEmpty(match_count)
       THEN /\ inverted_data' = invert_join([matches |-> all_matches, games |-> all_games,
                                             plays |-> all_plays, actions |-> all_actions])
            /\ pc' = "insert_matches"
            /\ UNCHANGED <<exit, tx>>
       ELSE /\ Ended("0", db)
            /\ UNCHANGED inverted_data
    /\ UNCHANGED <<invocation, fs, db, runs, new_files, i, match_count, error_count, skipped_count,
                   all_matches, all_games, all_plays, all_actions, history>>
    /\ UNCHANGED scraper

(***************************************************************************)
(* lines 218-242: the bulk inserts.  A statement the store refuses raises  *)
(* outside any try block: the exception leaves convert_logs and the        *)
(* process ends with a traceback and exit status 1.  The connection is     *)
(* dropped with its transaction open, which SQLite rolls back.             *)
(***************************************************************************)
\* the last 15 lines of a game, value[-15:]
ActionTail == 15

\* the line separator of '\n'.join
NL == <<"\n">>

RECURSIVE JoinLines(_)
\* '\n'.join(lines): the lines with a separator between neighbours
JoinLines(lines) ==
    IF Len(lines) <= 1 THEN lines
    ELSE <<Head(lines), NL>> \o JoinLines(Tail(lines))

\* For comparison: the first 15 lines, value[:15].
First15(value) == SubSeq(value, 1, IF Len(value) > 15 THEN 15 ELSE Len(value))

Last15(value) == SubSeq(value, IF Len(value) > ActionTail THEN Len(value) - ActionTail + 1 ELSE 1,
                        Len(value))

\* [key[:-2], int(key[-1]), '\n'.join(value[-15:])]
ActionRow(key, value) ==
    [Match_ID |-> SubSeq(key, 1, Len(key) - 2), Game_Num |-> key[Len(key)],
     Game_Actions |-> JoinLines(Last15(value))]

RECURSIVE InsertActionItems(_, _, _)
\* for key, value in items: INSERT OR IGNORE INTO GameActions
InsertActionItems(table, items, keys) ==
    IF keys = {} THEN table
    ELSE LET key == CHOOSE k \in keys : TRUE
         IN  InsertActionItems(InsertOrIgnoreAction(table, ActionRow(key, items[key])),
                               items, keys \ {key})

\* For comparison: a connection that commits what is pending when it is dropped.
CloseCommits(committed, view) == view

\* The connection is dropped with its transaction open, which SQLite rolls back.
CloseWithoutCommit(committed, view) == committed

Uncaught ==
    /\ db' = CloseWithoutCommit(db, tx)
    /\ Ended("1", db')
    /\ storeFault' = TRUE
    /\ UNCHANGED <<invocation, fs, runs, run_locals, outcome, prev, dbAtStart, dbBefore, edits, sameFs,
                   prevExit, prevStoreFault, readFault>>

Executed(view, next) ==
    /\ tx' = view
    /\ db' = ExecuteLeavesCommitted(db, view)
    /\ pc' = next
    /\ UNCHANGED <<invocation, fs, runs, exit, run_locals, history>>

InsertMatches ==
    /\ pc = "insert_matches"
    /\ \/ Executed([tx EXCEPT !.Matches = ExecuteManyMatches(@, inverted_data.matches)],
                   "insert_games")
       \/ Uncaught
    /\ UNCHANGED scraper

InsertGames ==
    /\ pc = "insert_games"
    /\ \/ Executed([tx EXCEPT !.Games = ExecuteManyGames(@, inverted_data.games)],
                   "insert_plays")
       \/ Uncaught
    /\ UNCHANGED scraper

InsertPlays ==
    /\ pc = "insert_plays"
    /\ \/ Executed([tx EXCEPT !.Plays = ExecuteManyPlays(@, inverted_data.plays)],
                   "insert_actions")
       \/ Uncaught
    /\ UNCHANGED scraper

InsertActions ==
    /\ pc = "insert_actions"
    /\ \/ Executed([tx EXCEPT !.GameActions = InsertActionItems(@, inverted_data.actions,
                                                  DOMAIN inverted_data.actions)],
                   "commit")
       \/ Uncaught
    /\ UNCHANGED scraper

(***************************************************************************)
(* lines 244-249: conn.commit() makes the transaction visible at once;     *)
(* then the summary is printed, the connection closed and the run returns. *)
(***************************************************************************)
Commit ==
    /\ pc = "commit"
    /\ \/ /\ db' = tx
          /\ Ended("0", tx)
          /\ UNCHANGED <<invocation, fs, runs, run_locals, history>>
       \/ Uncaught
    /\ UNCHANGED scraper

(***************************************************************************)
(* The process is stopped from outside (killed, power lost) anywhere in a  *)
(* run: the open transaction is never committed.                           *)
(***************************************************************************)
Kill ==
    /\ pc \notin {"idle", "done", "stats"}
    /\ db' = CloseWithoutCommit(db, tx)
    /\ Ended("killed", db')
    /\ UNCHANGED <<invocation, fs, runs, run_locals, history>>
    /\ UNCHANGED scraper

(***************************************************************************)
(* The process is gone; its locals with it.  What stays is the folder, the *)
(* store and the exit status.                                              *)
(***************************************************************************)
ProcessExit ==
    /\ pc = "done"
    /\ pc' = "idle"
    /\ new_files' = <<>>
    /\ i' = 1
    /\ match_count' = 0
    /\ error_count' = 0
    /\ skipped_count' = 0
    /\ all_matches' = <<>>
    /\ all_games' = <<>>
    /\ all_plays' = <<>>
    /\ all_actions' = <<>>
    /\ inverted_data' = NoData
    /\ prev' = NoOutcome
    /\ dbAtStart' = db
    /\ dbBefore' = dbAtStart
    /\ readFault' = FALSE
    /\ prevStoreFault' = FALSE
    /\ argv' = "none"
    /\ UNCHANGED <<folder_exists, db_exists, fs, db, tx, runs, exit, outcome, edits, sameFs, prevExit,
                   storeFault>>
    /\ UNCHANGED scraper

(***************************************************************************)
(* The stats commands: show_stats of convert_logs.py (lines 276-331) and   *)
(* main of show_stats.py (lines 9-201).  Both return when the database     *)
(* file does not exist; otherwise they connect, run SELECT statements,     *)
(* print, and close, with no INSERT, UPDATE, DELETE or commit.             *)
(***************************************************************************)
\* For comparison: sqlite3.connect with no test before it creates the file.
ConnectCreates(exists) == TRUE

\* if not os.path.exists(db_path): return -- the file is there afterwards
\* only if it was there before
ExistsAfterStats(exists) == exists

Stats ==
    /\ pc = "idle"
    /\ pc' = "stats"
    /\ db_exists' = ExistsAfterStats(db_exists)
    /\ UNCHANGED <<folder_exists, argv, fs, db, tx, runs, exit, run_locals, history>>
    /\ UNCHANGED scraper

StatsExit ==
    /\ pc = "stats"
    /\ pc' = "idle"
    /\ UNCHANGED <<invocation, fs, db, tx, runs, exit, run_locals, history>>
    /\ UNCHANGED scraper

Next ==
    \/ \E p \in Paths, c \in Contents : WriteFile(p, c)
    \/ \E p \in Paths : RemoveFile(p)
    \/ FolderNotFound
    \/ Scan
    \/ NoNewFiles
    \/ ParseFile
    \/ EndLoop
    \/ InsertMatches
    \/ InsertGames
    \/ InsertPlays
    \/ InsertActions
    \/ Commit
    \/ Kill
    \/ ProcessExit
    \/ Stats
    \/ StatsExit

Spec == Init /\ [][Next]_vars

(***************************************************************************)
(* The functions convert_logs applies to a batch, each on its own: the     *)
(* inverter on one parsed match, and the insert of a game's action lines.  *)
(***************************************************************************)
MaxLines == 17

Labels == {"P1", "P2", "NA"}

\* one match row, one game row and one play row the parser can give for a file
ParsedRows ==
    {[match |-> [MatchRow(<<1>>, 1, h) EXCEPT !.P1_Wins = w[1], !.P2_Wins = w[2],
                                                !.Roll_Winner = rw, !.Match_Winner = mw],
      game |-> GameRow(<<1>>, 1, h),
      play |-> PlayRow(<<1>>, 1, 1)] :
         h \in Players, w \in (0..1) \X (0..1), rw \in {"P1", "P2"}, mw \in Labels}
    \cup
    {[match |-> MatchRow(<<1>>, 1, h),
      game |-> [GameRow(<<1>>, 1, h) EXCEPT !.P1_Mulls = m[1], !.P2_Mulls = m[2],
                                              !.Game_Winner = gw],
      play |-> [PlayRow(<<1>>, 1, 1) EXCEPT !.Casting_Player = c, !.Opp_Target = t[1],
                                              !.Self_Target = t[2], !.Active_Player = c,
                                              !.Nonactive_Player = SwapLabel(c)]] :
         h \in Players, m \in (0..1) \X (0..1), gw \in Labels, c \in {"P1", "P2"},
         t \in (0..1) \X (0..1)}

\* the raw lines of a game, numbered
LinesOf(n) == [k \in 1..n |-> Line(k)]

FunctionsInit ==
    /\ folder_exists = TRUE
    /\ db_exists = FALSE
    /\ argv = "none"
    /\ fs = [p \in Paths |-> NoFile]
    /\ db = EmptyStore
    /\ tx = EmptyStore
    /\ runs = 0
    /\ exit = "none"
    /\ new_files = <<>>
    /\ i = 1
    /\ match_count = 0
    /\ error_count = 0
    /\ skipped_count = 0
    /\ inverted_data = NoData
    /\ outcome = NoOutcome
    /\ prev = NoOutcome
    /\ dbAtStart = EmptyStore
    /\ dbBefore = EmptyStore
    /\ edits = 0
    /\ sameFs = FALSE
    /\ prevExit = "none"
    /\ prevStoreFault = FALSE
    /\ readFault = FALSE
    /\ storeFault = FALSE
    /\ ScraperIdle
    /\ \/ /\ pc = "fn_batch"
          /\ \E r \in ParsedRows :
                /\ all_matches = <<r.match>>
                /\ all_games = <<r.game>>
                /\ all_plays = <<r.play>>
          /\ all_actions = <<>>
       \/ /\ pc = "fn_lines"
          /\ all_matches = <<>>
          /\ all_games = <<>>
          /\ all_plays = <<>>
          /\ \E n \in 0..MaxLines : all_actions = (ActionsKey(<<1>>, 1) :> LinesOf(n))

\* line 216 on a batch
InvertOnce ==
    /\ pc = "fn_batch"
    /\ inverted_data' = invert_join([matches |-> all_matches, games |-> all_games,
                                     plays |-> all_plays, actions |-> all_actions])
    /\ pc' = "fn_inverted"
    /\ UNCHANGED <<invocation, fs, db, tx, runs, exit, new_files, i, match_count, error_count,
                   skipped_count, all_matches, all_games, all_plays, all_actions, history>>
    /\ UNCHANGED scraper

\* the inverter on what it returned
InvertAgain ==
    /\ pc = "fn_inverted"
    /\ inverted_data' = invert_join(inverted_data)
    /\ pc' = "fn_inverted_twice"
    /\ UNCHANGED <<invocation, fs, db, tx, runs, exit, new_files, i, match_count, error_count,
                   skipped_count, all_matches, all_games, all_plays, all_actions, history>>
    /\ UNCHANGED scraper

\* lines 238-242 on the action lines of one game
StoreActions ==
    /\ pc = "fn_lines"
    /\ tx' = [tx EXCEPT !.GameActions = InsertActionItems(@, all_actions, DOMAIN all_actions)]
    /\ pc' = "fn_stored"
    /\ UNCHANGED <<invocation, fs, db, runs, exit, run_locals, history>>
    /\ UNCHANGED scraper

FunctionsNext ==
    \/ InvertOnce
    \/ InvertAgain
    \/ StoreActions

FunctionsSpec == FunctionsInit /\ [][FunctionsNext]_vars

(***************************************************************************)
(* scrape_premodern.py: the tournament scraper.                            *)
(*                                                                         *)
(* What the remote site answers is not under the program's control: every  *)
(* request either fails (get_soup raises) or returns a page whose links    *)
(* and lines are chosen freely, within the bounds below.  Of an event the  *)
(* model keeps its id, of a deck its id and event; the name, date,         *)
(* location, player, archetype and placement are copied from the page to   *)
(* the row and decide nothing.                                             *)
(***************************************************************************)
MaxEventIds == 2
\* distinct event ids the site shows
MaxDeckIds == 2
\* distinct deck ids the site shows
MaxLinks == 2
\* links on one page
MaxDeckLines == 3
\* lines of one decklist export
MaxNumEvents == 3
\* largest --events argument
MaxScrapes == 2
\* scrape runs in one behaviour

EventIds == 1..MaxEventIds

DeckIds == 1..MaxDeckIds

\* --events is any integer (argparse type=int)
NumEventsArgs == (0 - 1)..MaxNumEvents

FetchError == [tag |-> "error", links |-> <<>>, lines |-> <<>>]

\* a list page: its event links, in page order, repeats included
ListPages ==
    {[tag |-> "page", links |-> l, lines |-> <<>>] :
        l \in UNION {[1..n -> EventIds] : n \in 0..MaxLinks}}

\* an event page: its deck links, in page order, repeats included
EventPages ==
    {[tag |-> "page", links |-> l, lines |-> <<>>] :
        l \in UNION {[1..n -> DeckIds] : n \in 0..MaxLinks}}

\* The lines of a decklist export, by what scrape_decklist makes of them: an
\* empty line or one the pattern does not match (blank), a sideboard marker,
\* "N CardName", "N HEADER" (a line the pattern matches and the filters of
\* lines 282-286 drop).
DeckLine(kind, card, qty) == [kind |-> kind, card |-> card, qty |-> qty]

DeckLines ==
    {DeckLine("card", "Lightning Bolt", 4), DeckLine("sideboard", "", 0),
     DeckLine("blank", "", 0), DeckLine("header", "", 0)}

DeckTexts ==
    {[tag |-> "page", links |-> <<>>, lines |-> l] :
        l \in UNION {[1..n -> DeckLines] : n \in 0..MaxDeckLines}}

\* events[:num_events]
SliceTo(s, n) ==
    LET m == IF n >= 0 THEN (IF n < Len(s) THEN n ELSE Len(s))
             ELSE (IF Len(s) + n > 0 THEN Len(s) + n ELSE 0)
    IN  SubSeq(s, 1, m)

RECURSIVE AddLinks(_, _, _)
\* lines 128-159: for link in event_links -- an id already in events is
\* skipped, a new one appended, and the loop left when events is full
AddLinks(evs, links, n) ==
    IF links = <<>> THEN evs
    ELSE IF \E k \in DOMAIN evs : evs[k] = Head(links)
         THEN AddLinks(evs, Tail(links), n)
         ELSE IF Len(evs) + 1 >= n THEN Append(evs, Head(links))
              ELSE AddLinks(Append(evs, Head(links)), Tail(links), n)

\* the number of list pages scrape_event_list asks for at most
SafetyLimit == 10

\* For comparison: a loop with no limit on the pages.
NoLimit(p) == FALSE

\* if page > 10: break
PageLimit(p) == p > SafetyLimit

RECURSIVE DedupDecks(_, _)
\* scrape_event, lines 193-240: the deck ids of the page, each once
\* (seen_deck_ids), in page order
DedupDecks(links, seen) ==
    IF links = <<>> THEN <<>>
    ELSE IF Head(links) \in seen THEN DedupDecks(Tail(links), seen)
         ELSE <<Head(links)>> \o DedupDecks(Tail(links), seen \cup {Head(links)})

\* scrape_event: (None, []) when the request fails, else the decks found
scrape_event(response) ==
    IF response.tag = "error" THEN <<>> ELSE DedupDecks(response.links, {})

RECURSIVE ParseDeckLines(_, _, _, _)
\* scrape_decklist, lines 260-293
ParseDeckLines(lines, in_sideboard, maindeck, sideboard) ==
    IF lines = <<>> THEN [maindeck |-> maindeck, sideboard |-> sideboard]
    ELSE LET line == Head(lines)
             rest == Tail(lines)
         IN  CASE line.kind = "sideboard" -> ParseDeckLines(rest, TRUE, maindeck, sideboard)
               [] line.kind = "card" /\ in_sideboard ->
                     ParseDeckLines(rest, in_sideboard, maindeck,
                                    Append(sideboard, <<line.card, line.qty>>))
               [] line.kind = "card" /\ ~in_sideboard ->
                     ParseDeckLines(rest, in_sideboard,
                                    Append(maindeck, <<line.card, line.qty>>), sideboard)
               [] OTHER -> ParseDeckLines(rest, in_sideboard, maindeck, sideboard)

\* scrape_decklist: ([], []) when the request fails (lines 248-255)
scrape_decklist(response) ==
    IF response.tag = "error" THEN [maindeck |-> <<>>, sideboard |-> <<>>]
    ELSE ParseDeckLines(response.lines, FALSE, <<>>, <<>>)

\* INSERT OR REPLACE INTO Events: event_id is the primary key
InsertOrReplaceEvent(table, r) == {x \in table : x.event_id # r.event_id} \cup {r}

\* INSERT OR REPLACE INTO Decks: deck_id is the primary key
InsertOrReplaceDeck(table, r) == {x \in table : x.deck_id # r.deck_id} \cup {r}

\* For comparison: no DELETE before the cards are inserted.
KeepCards(table, deck) == table

\* DELETE FROM Cards WHERE deck_id = ?
DeleteCards(table, deck) == [r \in {x \in DOMAIN table : x.deck_id # deck} |-> table[r]]

RECURSIVE InsertCards(_, _, _, _)
\* for card, qty in list: INSERT INTO Cards.  The key of Cards is an
\* AUTOINCREMENT id no statement reads: the table is a bag of rows.
InsertCards(table, deck, list, is_sideboard) ==
    IF list = <<>> THEN table
    ELSE InsertCards(table (+) SetToBag({[deck_id |-> deck, card_name |-> Head(list)[1],
                                          quantity |-> Head(list)[2],
                                          is_sideboard |-> is_sideboard]}),
                     deck, Tail(list), is_sideboard)

\* lines 346-370: the deck row, then its cards
StoreDeck(view, deck, event, maindeck, sideboard) ==
    [view EXCEPT
        !.Decks = InsertOrReplaceDeck(@, [deck_id |-> deck, event_id |-> event]),
        !.Cards = InsertCards(InsertCards(DeleteCards(@, deck), deck, maindeck, 0),
                              deck, sideboard, 1)]

\* the converter, which the scraper never touches
ConverterIdle ==
    /\ folder_exists = TRUE
    /\ db_exists = FALSE
    /\ argv = "none"
    /\ fs = [p \in Paths |-> NoFile]
    /\ db = EmptyStore
    /\ tx = EmptyStore
    /\ pc = "idle"
    /\ runs = 0
    /\ exit = "none"
    /\ new_files = <<>>
    /\ i = 1
    /\ match_count = 0
    /\ error_count = 0
    /\ skipped_count = 0
    /\ all_matches = <<>>
    /\ all_games = <<>>
    /\ all_plays = <<>>
    /\ all_actions = <<>>
    /\ inverted_data = NoData
    /\ outcome = NoOutcome
    /\ prev = NoOutcome
    /\ dbAtStart = EmptyStore
    /\ dbBefore = EmptyStore
    /\ edits = 0
    /\ sameFs = FALSE
    /\ prevExit = "none"
    /\ prevStoreFault = FALSE
    /\ readFault = FALSE
    /\ storeFault = FALSE

ScrapeInit == ConverterIdle /\ ScraperIdle

\* The scraper process is gone, its locals with it; the store stays.
ScraperGone ==
    /\ spc' = "idle"
    /\ scrape_tx' = scrape_db
    /\ num_events' = 0
    /\ events' = <<>>
    /\ page' = 1
    /\ existing_events' = {}
    /\ event_index' = 1
    /\ event_id' = 0
    /\ decks' = <<>>
    /\ deck_index' = 1
    /\ new_events' = 0
    /\ new_decks' = 0
    /\ requests' = 0
    /\ fetched' = {}
    /\ scrapeAtStart' = scrape_db
    /\ stored' = NoDeck
    /\ UNCHANGED <<converter, scrape_db, scrape_runs>>

\* main, lines 546-554, and scrape_events to line 306: read the event ids
\* already stored, then call scrape_event_list
ScrapeStart(n) ==
    /\ spc = "idle"
    /\ scrape_runs < MaxScrapes
    /\ scrape_runs' = scrape_runs + 1
    /\ existing_events' = {r.event_id : r \in scrape_tx.Events}
    /\ num_events' = n
    /\ events' = <<>>
    /\ page' = 1
    /\ requests' = 0
    /\ fetched' = {}
    /\ new_events' = 0
    /\ new_decks' = 0
    /\ event_index' = 1
    /\ event_id' = 0
    /\ decks' = <<>>
    /\ deck_index' = 1
    /\ scrapeAtStart' = scrape_db
    /\ stored' = NoDeck
    /\ spc' = "list"
    /\ UNCHANGED <<converter, scrape_db, scrape_tx>>

\* scrape_event_list, lines 112-163: one pass of the while loop
FetchListPage ==
    /\ spc = "list"
    /\ Len(events) < num_events
    /\ requests' = requests + 1
    /\ \E response \in ListPages \cup {FetchError} :
          IF response.tag = "error" \/ response.links = <<>>
          THEN /\ spc' = "list_break"
               /\ UNCHANGED <<events, page>>
          ELSE /\ events' = AddLinks(events, response.links, num_events)
               /\ page' = page + 1
               /\ spc' = IF PageLimit(page') THEN "list_break" ELSE "list"
    /\ UNCHANGED <<converter, scrape_db, scrape_tx, scrape_runs, num_events, existing_events,
                   event_index, event_id, decks, deck_index, new_events, new_decks, fetched,
                   scrapeAtStart, stored>>

\* line 165: return events[:num_events], when the loop condition fails or
\* after a break; the locals of scrape_event_list are gone
ListReturn ==
    /\ \/ spc = "list" /\ ~(Len(events) < num_events)
       \/ spc = "list_break"
    /\ events' = SliceTo(events, num_events)
    /\ spc' = "events"
    /\ page' = 1
    /\ requests' = 0
    /\ UNCHANGED <<converter, scrape_db, scrape_tx, scrape_runs, num_events,
                   existing_events, event_index, event_id, decks, deck_index, new_events,
                   new_decks, fetched, scrapeAtStart, stored>>

\* if event_id in existing_events: continue
AlreadyScraped(id, existing) == id \in existing

\* scrape_events, lines 313-333: one event of the list -- skipped when its
\* id was stored before the run, else fetched and, when its page shows a
\* deck, inserted
NextEvent ==
    /\ spc = "events"
    /\ event_index <= Len(events)
    /\ LET id == events[event_index]
       IN  IF AlreadyScraped(id, existing_events)
           THEN /\ event_index' = event_index + 1
                /\ UNCHANGED <<scrape_tx, spc, event_id, decks, deck_index, new_events, fetched>>
           ELSE \E response \in EventPages \cup {FetchError} :
                   LET found == scrape_event(response)
                   IN  /\ fetched' = fetched \cup {id}
                       /\ IF found = <<>>
                          THEN /\ event_index' = event_index + 1
                               /\ UNCHANGED <<scrape_tx, spc, event_id, decks, deck_index,
                                              new_events>>
                          ELSE /\ scrape_tx' =
                                     [scrape_tx EXCEPT !.Events =
                                         InsertOrReplaceEvent(@,
                                             [event_id |-> id, num_players |-> Len(found),
                                              scraped_date |-> scrape_runs])]
                               /\ new_events' = new_events + 1
                               /\ event_id' = id
                               /\ decks' = found
                               /\ deck_index' = 1
                               /\ spc' = "decks"
                               /\ UNCHANGED event_index
    /\ UNCHANGED <<converter, scrape_db, scrape_runs, num_events, events, page, existing_events,
                   new_decks, requests, scrapeAtStart, stored>>

\* lines 336-370: one deck of the event -- fetched and, when the export
\* holds a maindeck card, stored
ScrapeDeck ==
    /\ spc = "decks"
    /\ deck_index <= Len(decks)
    /\ \E response \in DeckTexts \cup {FetchError} :
          LET deck == decks[deck_index]
              lists == scrape_decklist(response)
          IN  IF lists.maindeck = <<>>
              THEN UNCHANGED <<scrape_tx, new_decks, stored>>
              ELSE /\ scrape_tx' = StoreDeck(scrape_tx, deck, event_id, lists.maindeck,
                                             lists.sideboard)
                   /\ new_decks' = new_decks + 1
                   /\ stored' = [deck_id |-> deck, maindeck |-> lists.maindeck,
                                 sideboard |-> lists.sideboard]
    /\ deck_index' = deck_index + 1
    /\ UNCHANGED <<converter, scrape_db, spc, scrape_runs, num_events, events, page,
                   existing_events, event_index, event_id, decks, new_events, requests,
                   fetched, scrapeAtStart>>

\* line 372: conn.commit() after the decks of the event
CommitEvent ==
    /\ spc = "decks"
    /\ deck_index > Len(decks)
    /\ scrape_db' = scrape_tx
    /\ event_index' = event_index + 1
    /\ spc' = "events"
    /\ stored' = NoDeck
    /\ UNCHANGED <<converter, scrape_tx, scrape_runs, num_events, events, page,
                   existing_events, event_id, decks, deck_index, new_events, new_decks,
                   requests, fetched, scrapeAtStart>>

\* lines 374-375 and main, lines 554-556: the loop over events is over;
\* print, close the connection
ScrapeReturn ==
    /\ spc = "events"
    /\ event_index > Len(events)
    /\ ScraperGone

\* The process is stopped during a run (killed, or a statement the store
\* refuses raises out of scrape_events): what was not committed is lost.
ScrapeKill ==
    /\ spc # "idle"
    /\ ScraperGone

ScrapeNext ==
    \/ \E n \in NumEventsArgs : ScrapeStart(n)
    \/ FetchListPage
    \/ ListReturn
    \/ NextEvent
    \/ ScrapeDeck
    \/ CommitEvent
    \/ ScrapeReturn
    \/ ScrapeKill

ScrapeSpec == ScrapeInit /\ [][ScrapeNext]_vars

\* scrape_event_list on its own, called with any argument.  The loop is
\* sequential code: once called it keeps taking its next step.
ListInit ==
    /\ ConverterIdle
    /\ scrape_db = EmptyScrapeStore
    /\ scrape_tx = EmptyScrapeStore
    /\ spc = "list"
    /\ scrape_runs = 1
    /\ num_events \in NumEventsArgs
    /\ events = <<>>
    /\ page = 1
    /\ existing_events = {}
    /\ event_index = 1
    /\ event_id = 0
    /\ decks = <<>>
    /\ deck_index = 1
    /\ new_events = 0
    /\ new_decks = 0
    /\ requests = 0
    /\ fetched = {}
    /\ scrapeAtStart = EmptyScrapeStore
    /\ stored = NoDeck

ListNext ==
    \/ FetchListPage
    \/ ListReturn

ListSpec == ListInit /\ [][ListNext]_vars /\ WF_vars(FetchListPage) /\ WF_vars(ListReturn)

(***************************************************************************)
(* Properties.                                                             *)
(***************************************************************************)
MatchIds == {Fname(n) : n \in Names}

Ledgered(store) == {r.Match_ID : r \in store.Processed_Files}

\* rows of match mid in every derived table that has one row per game or match
HasRows(store, mid) ==
    /\ \E m \in store.Matches : m.Match_ID = mid
    /\ \E g \in store.Games : g.Match_ID = mid
    /\ \E q \in BagToSet(store.Plays) : q.Match_ID = mid

AnyRows(store, mid) ==
    \/ \E m \in store.Matches : m.Match_ID = mid
    \/ \E g \in store.Games : g.Match_ID = mid
    \/ \E q \in BagToSet(store.Plays) : q.Match_ID = mid

\* every row of store a is in store b, unchanged
StoreIncludes(b, a) ==
    /\ a.Processed_Files \subseteq b.Processed_Files
    /\ a.Matches \subseteq b.Matches
    /\ a.Games \subseteq b.Games
    /\ a.Plays \sqsubseteq b.Plays
    /\ a.GameActions \subseteq b.GameActions

InRun == pc \notin {"idle", "stats"}

\* C1: in every committed state, a match is in the ledger exactly when its
\* derived rows are in the store: no file ledgered without its rows, no rows
\* without the ledger row of their file.
C1_LedgerIffRows ==
    \A mid \in MatchIds :
        /\ mid \in Ledgered(db) => HasRows(db, mid)
        /\ AnyRows(db, mid) => mid \in Ledgered(db)

\* C2: a file whose name is in Processed_Files when a run scans is not handed
\* to the parser by that run.
C2_NoReparse ==
    InRun => \A p \in Paths :
                outcome[p] # "none" => Basename(p) \notin get_processed_files(dbAtStart)

\* a second run, a ledgered file still in the folder, another file processed
C2_Witness ==
    /\ pc = "done"
    /\ \E p, q \in Paths :
          /\ fs[p] # NoFile
          /\ Basename(p) \in get_processed_files(dbAtStart)
          /\ outcome[p] = "none"
          /\ outcome[q] = "ok"

C4_NoDuplicateRows ==
    /\ \A r \in BagToSet(db.Plays) : CopiesIn(r, db.Plays) = 1
    /\ \A x, y \in db.Matches : MatchKey(x) = MatchKey(y) => x = y
    /\ \A x, y \in db.Games : GameKey(x) = GameKey(y) => x = y
    /\ \A x, y \in db.GameActions : ActionKey(x) = ActionKey(y) => x = y

TwinRecorded(p) == \E q \in Paths : q # p /\ Basename(q) = Basename(p) /\ prev[q] = "ok"

\* C6 as stated: a transcript that failed with an error in the run before
\* and still exists is a candidate of this run, and its file name is not in
\* Processed_Files.
C6_ErrorRetried ==
    InRun => \A p \in Paths :
                (prev[p] = "error" /\ fs[p] # NoFile) =>
                    /\ p \in Range(new_files)
                    /\ Basename(p) \notin get_processed_files(dbAtStart)

\* C6, amended: the same, for a transcript whose file name was not recorded
\* by the run before through a file of the same name in another directory.
C6_ErrorRetriedByName ==
    InRun => \A p \in Paths :
                (prev[p] = "error" /\ fs[p] # NoFile /\ ~TwinRecorded(p)) =>
                    /\ p \in Range(new_files)
                    /\ Basename(p) \notin get_processed_files(dbAtStart)

\* a second run: a file that failed before, beside one that was committed
\* by the run before, is a candidate again and fails again
C6_Witness ==
    /\ pc = "done"
    /\ \E p, q \in Paths :
          /\ prev[p] = "error"
          /\ prev[q] = "ok"
          /\ Basename(q) \in get_processed_files(dbAtStart)
          /\ ~TwinRecorded(p)
          /\ p \in Range(new_files)
          /\ outcome[p] = "error"

\* rejected transcripts are counted as skipped, not as errors, and put
\* nothing in the batch
SkipsCounted ==
    /\ skipped_count = Cardinality({p \in Paths : outcome[p] = "skipped"})
    /\ error_count = Cardinality({p \in Paths : outcome[p] = "error"})
    /\ match_count = Cardinality({p \in Paths : outcome[p] = "ok"})
    /\ Len(all_matches) = Cardinality({p \in Paths : /\ outcome[p] \in {"ok", "error"}
                                                      /\ fs[p].kind = "good"})

\* C7 as stated: a rejected transcript is counted as skipped and not as an
\* error, puts nothing in the batch, has no Processed_Files row, and is a
\* candidate of the next run.
C7_RejectSkippedAndRetried ==
    InRun =>
        /\ SkipsCounted
        /\ \A p \in Paths :
              (prev[p] = "skipped" /\ fs[p] # NoFile) =>
                  /\ p \in Range(new_files)
                  /\ Basename(p) \notin get_processed_files(dbAtStart)

\* C7, amended: the same, for a transcript whose file name was not recorded
\* by the run before through a file of the same name in another directory.
C7_RejectSkippedAndRetriedByName ==
    InRun =>
        /\ SkipsCounted
        /\ \A p \in Paths :
              (prev[p] = "skipped" /\ fs[p] # NoFile /\ ~TwinRecorded(p)) =>
                  /\ p \in Range(new_files)
                  /\ Basename(p) \notin get_processed_files(dbAtStart)

\* a second run: a file rejected before, beside one that was committed by
\* the run before, is a candidate again and is skipped again
C7_Witness ==
    /\ pc = "done"
    /\ skipped_count = 1
    /\ error_count = 0
    /\ \E p, q \in Paths :
          /\ prev[p] = "skipped"
          /\ prev[q] = "ok"
          /\ Basename(q) \in get_processed_files(dbAtStart)
          /\ ~TwinRecorded(p)
          /\ p \in Range(new_files)
          /\ outcome[p] = "skipped"

\* C8: a run with no candidate, or in which no candidate parses and is
\* recorded, never reaches the inserts or the commit, and the store is as it
\* was before the run.
C8_EmptyBatchNoCommit ==
    (InRun /\ \A p \in Paths : outcome[p] # "ok") =>
        /\ pc \in {"parse", "done"}
        /\ db = dbAtStart
        /\ tx = dbAtStart

\* a run that returned with candidates, none of them recorded
C8_Witness ==
    /\ pc = "done"
    /\ exit = "0"
    /\ new_files # <<>>
    /\ \A p \in Paths : outcome[p] # "ok"
    /\ \E p \in Paths : outcome[p] = "skipped"

\* C9: until the commit returns, the committed store holds nothing of the
\* run; a run that does not return normally leaves it as it was; after the
\* commit it holds the ledger row and the rows of every recorded file.
C9_AllOrNothing ==
    /\ pc \notin {"idle", "done"} => db = dbAtStart
    /\ (pc = "done" /\ exit # "0") => db = dbAtStart
    /\ (pc = "done" /\ db # dbAtStart) =>
          \A p \in Paths : outcome[p] = "ok" =>
              /\ Basename(p) \in get_processed_files(db)
              /\ HasRows(db, Fname(Basename(p)))

\* a run stopped after the inserts and before the commit: nothing is visible
C9_Witness ==
    /\ pc = "done"
    /\ exit # "0"
    /\ inverted_data # NoData
    /\ \E p \in Paths : outcome[p] = "ok"
    /\ db = dbAtStart

\* C10: a run in which a file could not be read or a store write failed ends
\* with exit status 1 and commits nothing.
C10_ResourceFailureFatal ==
    (pc = "done" /\ exit # "killed" /\ (readFault \/ storeFault)) =>
        /\ exit = "1"
        /\ db = dbAtStart

(***************************************************************************)
(* A whole run as a function of the folder, the candidate order and the    *)
(* store, when nothing stops it and the store refuses nothing.             *)
(***************************************************************************)
RECURSIVE ParseAll(_, _, _, _)
\* lines 173-208 over a list of candidates
ParseAll(st, files, folder, now) ==
    IF files = <<>> THEN st
    ELSE ParseAll(LoopBody(st, Head(files), folder[Head(files)], TRUE, now).st,
                  Tail(files), folder, now)

\* lines 212-244 on the store the connection sees
InsertAll(view, st) ==
    LET inv == invert_join([matches |-> st.all_matches, games |-> st.all_games,
                            plays |-> st.all_plays, actions |-> st.all_actions])
    IN  [view EXCEPT !.Matches = ExecuteManyMatches(@, inv.matches),
                     !.Games = ExecuteManyGames(@, inv.games),
                     !.Plays = ExecuteManyPlays(@, inv.plays),
                     !.GameActions = InsertActionItems(@, inv.actions, DOMAIN inv.actions)]

\* convert_logs from line 159 to its return
CompleteRun(files, folder, store, now) ==
    LET st == ParseAll([tx |-> store, all_matches |-> <<>>, all_games |-> <<>>,
                        all_plays |-> <<>>, all_actions |-> <<>>, match_count |-> 0,
                        error_count |-> 0, skipped_count |-> 0], files, folder, now)
    IN  IF files # <<>> /\ BatchNotEmpty(st.match_count) THEN InsertAll(st.tx, st) ELSE store

\* the same ledger file names and match ids, the same derived rows
SameContents(a, b) ==
    /\ {<<r.Filename, r.Match_ID>> : r \in a.Processed_Files}
         = {<<r.Filename, r.Match_ID>> : r \in b.Processed_Files}
    /\ a.Matches = b.Matches
    /\ a.Games = b.Games
    /\ a.Plays = b.Plays
    /\ a.GameActions = b.GameActions

\* C11: when the run before did not reach its commit (an exception left it or
\* the process was stopped) and the folder is as it was, a run that returns
\* leaves the store one uninterrupted run from the earlier store would have
\* left, for some order in which the folder is walked.
C11_RerunResumes ==
    (pc = "done" /\ exit = "0" /\ ~storeFault /\ sameFs /\ prevExit \in {"1", "killed"}) =>
        \E log_files \in find_log_files(fs) :
            SameContents(db, CompleteRun(NewFiles(log_files, get_processed_files(dbBefore)),
                                         fs, dbBefore, runs))

\* the run before was stopped with inserts pending; this run committed a file
C11_Witness ==
    /\ pc = "done"
    /\ exit = "0"
    /\ ~storeFault
    /\ sameFs
    /\ prevExit \in {"1", "killed"}
    /\ \E p \in Paths : prev[p] = "ok" /\ outcome[p] = "ok"
    /\ db # dbBefore

\* C12: no step removes or changes a committed row of Processed_Files,
\* Matches, Games, Plays or GameActions; the store only grows.
C12_StoreOnlyGrows == [][StoreIncludes(db', db)]_vars

\* a run that returned after it parsed a transcript whose match was already
\* stored with other values: the stored Matches row is the earlier one
C12_Witness ==
    /\ pc = "done"
    /\ exit = "0"
    /\ \E p \in Paths :
          /\ outcome[p] = "ok"
          /\ \E m \in dbAtStart.Matches :
                /\ m.Match_ID = Fname(Basename(p))
                /\ m.P1 = fs[p].hero
                /\ m # MatchRow(m.Match_ID, fs[p].games, fs[p].hero)
                /\ m \in db.Matches

\* the action lines the parser gives for game n of the transcript at path p
ParsedActions(p, n) ==
    get_all_data(fs[p], Fname(Basename(p))).actions[ActionsKey(Fname(Basename(p)), n)]

\* C13: GameActions has at most one row per (Match_ID, Game_Num), and after a
\* run that returned, the row of every game of a transcript the run ingested
\* (the only file of its name in the run) holds the lines of that ingestion.
C13_ActionsOverwritten ==
    /\ \A x, y \in db.GameActions : ActionKey(x) = ActionKey(y) => x = y
    /\ (pc = "done" /\ exit = "0" /\ ~storeFault) =>
          \A p \in Paths :
              (/\ outcome[p] = "ok"
               /\ \A q \in Paths : (q # p /\ Basename(q) = Basename(p)) => outcome[q] = "none") =>
                  \A n \in 1..fs[p].games :
                      \E r \in db.GameActions :
                          /\ ActionKey(r) = <<Fname(Basename(p)), n>>
                          /\ r.Game_Actions = JoinLines(Last15(ParsedActions(p, n)))

RECURSIVE SumGames(_)
\* g_1 + ... + g_k over a set of paths
SumGames(S) ==
    IF S = {} THEN 0
    ELSE LET p == CHOOSE q \in S : TRUE IN fs[p].games + SumGames(S \ {p})

\* a run returned, the store refused nothing, and the store held no row of
\* any match of the batch when the run began
FreshBatchDone ==
    /\ pc = "done"
    /\ exit = "0"
    /\ ~storeFault
    /\ \A p \in Range(new_files) : ~AnyRows(dbAtStart, Fname(Basename(p)))

\* what C14 says of such a run: k ledger rows, 2k Matches rows, 2(g_1+...+g_k)
\* Games rows, m errors, nothing of a failing transcript
BatchCounts ==
    LET parsed == {p \in Paths : outcome[p] = "ok"}
        failed == {p \in Paths : outcome[p] = "error"}
    IN  /\ Cardinality(db.Processed_Files \ dbAtStart.Processed_Files) = Cardinality(parsed)
        /\ Cardinality(db.Matches \ dbAtStart.Matches) = 2 * Cardinality(parsed)
        /\ Cardinality(db.Games \ dbAtStart.Games) = 2 * SumGames(parsed)
        /\ error_count = Cardinality(failed)
        /\ \A p \in failed :
              /\ Basename(p) \notin get_processed_files(db)
              /\ ~AnyRows(db, Fname(Basename(p)))

\* the candidates of the run have different file names
DistinctNames ==
    \A p, q \in Range(new_files) : p # q => Basename(p) # Basename(q)

AddedRows(rows, n) == SubSeq(rows, n + 1, Len(rows))

\* C15: inverting an inverted batch gives no row the inverted batch does not
\* hold, and the rows it adds for the added rows of the first inversion are
\* the rows of the original batch: swapping the perspective twice is the
\* identity on match, game and play rows.
C15_InversionInvolution ==
    pc = "fn_inverted_twice" =>
        LET once == invert_join([matches |-> all_matches, games |-> all_games,
                                 plays |-> all_plays, actions |-> all_actions])
        IN  /\ Range(inverted_data.matches) = Range(once.matches)
            /\ Range(inverted_data.games) = Range(once.games)
            /\ Range(inverted_data.plays) = Range(once.plays)
            /\ AddedRows(inverted_data.matches, 3) = all_matches
            /\ AddedRows(inverted_data.games, 3) = all_games
            /\ AddedRows(inverted_data.plays, 3) = all_plays

\* a batch inverted twice whose inversion differs from it in every table
C15_Witness ==
    /\ pc = "fn_inverted_twice"
    /\ Len(inverted_data.matches) = 4
    /\ inverted_data.matches[2] # inverted_data.matches[1]
    /\ inverted_data.games[2] # inverted_data.games[1]
    /\ inverted_data.plays[2] # inverted_data.plays[1]
    /\ inverted_data.matches[1].Match_Winner = "P2"

\* the players of the matches stored under mid
PlayersOf(store, mid) ==
    UNION {{m.P1, m.P2} : m \in {x \in store.Matches : x.Match_ID = mid}}

\* C16: for every stored match and each of its two players X there is exactly
\* one Matches row with P1 = X, and for each of its stored games exactly one
\* Games row with P1 = X.
C16_OneRowPerPlayer ==
    \A mid \in MatchIds :
        \A X \in PlayersOf(db, mid) :
            /\ Cardinality({m \in db.Matches : m.Match_ID = mid /\ m.P1 = X}) = 1
            /\ \A g \in {x \in db.Games : x.Match_ID = mid} :
                  Cardinality({x \in db.Games : /\ x.Match_ID = mid
                                                /\ x.Game_Num = g.Game_Num
                                                /\ x.P1 = X}) = 1

\* a run committed a match from a transcript of bob's client: the store has
\* its row with P1 = alice and its row with P1 = bob
C16_Witness ==
    /\ pc = "done"
    /\ exit = "0"
    /\ \E p \in Paths :
          /\ outcome[p] = "ok"
          /\ fs[p].hero = "bob"
          /\ \A q \in Paths : q # p => outcome[q] = "none"
          /\ PlayersOf(db, Fname(Basename(p))) = Players
          /\ \E m \in db.Matches : m.Match_ID = Fname(Basename(p)) /\ m.P1 = "alice"

IsLine(x) == x # NL

\* the lines of a stored text
TextLines(text) == SelectSeq(text, IsLine)

\* the raw lines given for the game whose actions were stored
RawLines == all_actions[ActionsKey(<<1>>, 1)]

\* C17: the text stored for a game has at most 15 lines, and they are the
\* last min(15, n) of the n lines given for the game, in their order.
C17_LastFifteenLines ==
    pc = "fn_stored" =>
        /\ Cardinality(tx.GameActions) = 1
        /\ \A r \in tx.GameActions :
              LET n == Len(RawLines)
                  kept == IF n < 15 THEN n ELSE 15
              IN  /\ r.Match_ID = <<1>>
                  /\ r.Game_Num = 1
                  /\ Len(TextLines(r.Game_Actions)) = kept
                  /\ Len(TextLines(r.Game_Actions)) <= 15
                  /\ \A k \in 1..kept : TextLines(r.Game_Actions)[k] = RawLines[n - kept + k]

\* a game of 17 lines was stored: its text begins with the third line
C17_Witness ==
    /\ pc = "fn_stored"
    /\ Len(RawLines) = 17
    /\ \E r \in tx.GameActions :
          /\ r.Game_Actions[1] = Line(3)
          /\ r.Game_Actions[Len(r.Game_Actions)] = Line(17)
          /\ Len(r.Game_Actions) = 29

\* C18: an invocation that ends by itself ends with a non-zero status when
\* the log folder does not exist, and with status zero when it exists and the
\* store refused nothing.
C18_ExitStatus ==
    (pc = "done" /\ exit # "killed") =>
        /\ ~folder_exists => exit # "0"
        /\ (folder_exists /\ ~storeFault) => exit = "0"

\* C19: a stats command changes no table, commits nothing, and does not
\* create the database file when there is none.
C19_StatsReadOnly ==
    [][pc' = "stats" => (db' = db /\ tx' = tx /\ db_exists' = db_exists)]_vars

\* a stats command has run where there is no database file: there is none
C19_Witness ==
    /\ pc = "stats"
    /\ ~db_exists

\* rows of Plays for the game of row r
SameGame(r, q) == q.Match_ID = r.Match_ID /\ q.Game_Num = r.Game_Num

\* C20: in Plays, no play of a game is stored twice, the Play_Num of a game's
\* rows run from 1 without a gap, and Turn_Num does not decrease as Play_Num
\* increases.  (A play is a row of one perspective: the inverter gives every
\* play once per perspective and Plays has no column that tells them apart,
\* so the two rows of a play share their Play_Num.)
C20_PlaysInOrder ==
    \A r \in BagToSet(db.Plays) :
        /\ CopiesIn(r, db.Plays) = 1
        /\ \A k \in 1..r.Play_Num :
              \E q \in BagToSet(db.Plays) : SameGame(r, q) /\ q.Play_Num = k
        /\ \A q \in BagToSet(db.Plays) :
              (SameGame(r, q) /\ q.Play_Num <= r.Play_Num) => q.Turn_Num <= r.Turn_Num


(***************************************************************************)
(* The order of the steps of a run.                                        *)
(***************************************************************************)
\* every row of the inverted batch has been executed on the connection
InsertedAll(view, data) ==
    /\ \A k \in DOMAIN data.matches :
          \E x \in view.Matches : MatchKey(x) = MatchKey(data.matches[k])
    /\ \A k \in DOMAIN data.games :
          \E x \in view.Games : GameKey(x) = GameKey(data.games[k])
    /\ \A k \in DOMAIN data.plays : BagIn(data.plays[k], view.Plays)
    /\ \A key \in DOMAIN data.actions :
          \E x \in view.GameActions :
              ActionKey(x) = ActionKey(ActionRow(key, data.actions[key]))

\* C21: the steps of a run come in the order scan, parse, invert, insert,
\* commit.  The inverter is called only at the end of the parse loop, when
\* every candidate has been parsed, skipped or has failed, and not after it
\* has been called in this run; the committed store changes only at the
\* commit, at most once in a run, and when it does the connection holds the
\* ledger row of every parsed file and every row of the inverted batch.
C21_StepOrder ==
    [][/\ (inverted_data' # inverted_data /\ pc' # "idle") =>
              /\ pc = "parse"
              /\ inverted_data = NoData
              /\ \A k \in DOMAIN new_files : outcome[new_files[k]] # "none"
       /\ (db' # db) =>
              /\ pc = "commit"
              /\ db = dbAtStart
              /\ inverted_data # NoData
              /\ InsertedAll(tx, inverted_data)
              /\ \A p \in Paths :
                    outcome[p] = "ok" => Basename(p) \in get_processed_files(tx)]_vars

\* a committed run over two candidates, one parsed and one not
C21_Witness ==
    /\ pc = "done"
    /\ exit = "0"
    /\ db # dbAtStart
    /\ Len(new_files) = 2
    /\ \E p \in Range(new_files) : outcome[p] # "ok"

\* C22: at the end of the parse loop every candidate has been counted once,
\* as processed, as an error or as skipped: the three counters add up to the
\* number of new files (and, inside the loop, to the number of candidates
\* gone through so far).
C22_CountersPartition ==
    /\ pc = "parse" => match_count + error_count + skipped_count = i - 1
    /\ (pc \in {"insert_matches", "insert_games", "insert_plays", "insert_actions", "commit"}
           \/ (pc = "done" /\ exit = "0")) =>
          match_count + error_count + skipped_count = Len(new_files)

\* the loop is over with one candidate counted as processed and one as not
C22_Witness ==
    /\ pc = "parse"
    /\ ForExhausted(i, new_files)
    /\ match_count = 1
    /\ error_count + skipped_count = 1

\* C23: a run that commits adds as many ledger rows as the matches it
\* reports and as the matches of the batch it inverted (here for runs in
\* which the store refused no statement).
C23_LedgerRowsEqualCount ==
    (pc = "done" /\ exit = "0" /\ db # dbAtStart /\ ~storeFault) =>
        /\ Cardinality(db.Processed_Files \ dbAtStart.Processed_Files) = match_count
        /\ match_count = Len(all_matches)


(***************************************************************************)
(* The scraper.                                                            *)
(***************************************************************************)
\* C24: scrape_event_list terminates whatever its argument, the pages and
\* the failures: it requests at most SafetyLimit list pages and returns at
\* most num_events events (none when num_events is negative), no two with
\* the same id.
C24_ListTerminates ==
    /\ [](requests <= SafetyLimit)
    /\ [](spc = "events" =>
            /\ Len(events) <= (IF num_events < 0 THEN 0 ELSE num_events)
            /\ \A a, b \in DOMAIN events : a # b => events[a] # events[b])
    /\ <>(spc = "events")

\* the loop is left at the page limit with fewer events than asked for
C24_Witness ==
    /\ spc = "list_break"
    /\ requests = SafetyLimit
    /\ page > SafetyLimit
    /\ events # <<>>
    /\ Len(events) < num_events


\* the Cards rows of a deck
CardsOf(store, deck) == [r \in {x \in DOMAIN store.Cards : x.deck_id = deck} |-> store.Cards[r]]

\* the Events row of an event id
EventRows(store, id) == {r \in store.Events : r.event_id = id}

\* the deck ids stored under an event id
DecksOf(store, id) == {r.deck_id : r \in {x \in store.Decks : x.event_id = id}}

\* what the store holds of an event: its row, its deck rows, their cards
EventData(store, id, deckIds) ==
    [event |-> EventRows(store, id),
     decks |-> {r \in store.Decks : r.deck_id \in deckIds \/ r.event_id = id},
     cards |-> [d \in deckIds |-> CardsOf(store, d)]]

\* C25: an event stored before the run is not fetched by the run,
\* and its Events, Decks and Cards rows stay as they were in the committed
\* store.
C25_ExistingEventUntouched ==
    spc # "idle" =>
        \A id \in existing_events :
            LET deckIds == DecksOf(scrapeAtStart, id)
            IN  /\ id \notin fetched
                /\ EventData(scrape_db, id, deckIds) = EventData(scrapeAtStart, id, deckIds)

\* C26: in the committed store every event has a deck, and its num_players
\* is the number of its deck rows.
C26_EventsHaveDecks ==
    \A r \in scrape_db.Events :
        /\ DecksOf(scrape_db, r.event_id) # {}
        /\ r.num_players = Cardinality(DecksOf(scrape_db, r.event_id))

\* the Cards row of an entry of a fetched list
CardRow(deck, entry, is_sideboard) ==
    [deck_id |-> deck, card_name |-> entry[1], quantity |-> entry[2],
     is_sideboard |-> is_sideboard]

\* how many entries of the lists fetched for the deck stored last give this row
Listed(row) ==
    Cardinality({k \in DOMAIN stored.maindeck :
                    row = CardRow(stored.deck_id, stored.maindeck[k], 0)})
    + Cardinality({k \in DOMAIN stored.sideboard :
                      row = CardRow(stored.deck_id, stored.sideboard[k], 1)})

\* C27: once a deck is stored, the Cards rows with its deck_id are the
\* entries of the decklist just fetched, each as often as it is listed, the
\* maindeck ones with is_sideboard 0 and the sideboard ones with 1; no row
\* of an earlier scrape of the deck id is left.
C27_CardsAreLastDecklist ==
    stored # NoDeck =>
        LET cards == CardsOf(scrape_tx, stored.deck_id)
        IN  /\ \A row \in DOMAIN cards : cards[row] = Listed(row)
            /\ \A k \in DOMAIN stored.maindeck :
                  BagIn(CardRow(stored.deck_id, stored.maindeck[k], 0), cards)
            /\ \A k \in DOMAIN stored.sideboard :
                  BagIn(CardRow(stored.deck_id, stored.sideboard[k], 1), cards)

\* a deck stored by an earlier run is stored again, with other cards and a
\* sideboard
C27_Witness ==
    /\ stored # NoDeck
    /\ stored.sideboard # <<>>
    /\ CardsOf(scrapeAtStart, stored.deck_id) # EmptyBag
    /\ CardsOf(scrapeAtStart, stored.deck_id) # CardsOf(scrape_tx, stored.deck_id)


=============================================================================
